---- MODULE Spec2Model ----
(***************************************************************************)
(* Model of the assessment-generation and answer-normalization pipeline of *)
(* the Admin Assessment API (src/main.py, src/models.py) and of the exam   *)
(* scoring test of the frontend (src/testing_frontend.py).                 *)
(*                                                                         *)
(* Python values are modelled as follows: a dict is a record, a list is a  *)
(* sequence, a key that a dict does not have holds the value NoField, and  *)
(* a JSON value that is not a string is one of the values of NonStrings.   *)
(***************************************************************************)
EXTENDS Integers, Sequences, FiniteSets, TLC

\* ------------------------------------------------------------------------
\* Bounds of the model
\* ------------------------------------------------------------------------
\* Longest topic list a creation request carries.
MaxTopics == 2
\* Largest number of items one generation response carries.
MaxGen == 3
\* Longest options list of a question handed to the normalizer.
MaxOptions == 5

\* ------------------------------------------------------------------------
\* Values
\* ------------------------------------------------------------------------
NoField == "<absent>"
NonStrings == {"#7"}
IsStr(v) == v \notin NonStrings /\ v # NoField

Range(s) == {s[k] : k \in 1..Len(s)}

\* chr(65 + idx) for the indexes the model reaches
Alphabet == <<"A", "B", "C", "D", "E", "F", "G", "H">>
Chr65(idx) == Alphabet[idx + 1]

CanonicalLabels == {"A", "B", "C", "D"}

\* list.index(x): the zero-based position of the first element equal to x
ListIndex(s, x) == (CHOOSE k \in 1..Len(s) : s[k] = x /\ \A j \in 1..(k - 1) : s[j] # x) - 1

VARIABLES
    assessments,   \* the assessments table, in insertion order
    questions,     \* the questions table, in insertion order
    req,           \* the frame of each request being served
    db0,           \* the two tables as they were before any request
    dd,            \* a difficulty split and the validator's verdict on it
    nq,            \* a generated question and its normalized form
    agg,           \* the results view: submissions and the best-score table
    gq,            \* one generate_questions call: the response and the result
    submissions,   \* the submissions table, in insertion order
    auth,          \* one get_current_user call: the token and the verdict
    ui             \* the exam page: session state, query parameters, last run

vars == <<assessments, questions, req, db0, dd, nq, agg, gq, submissions, auth, ui>>

\* ------------------------------------------------------------------------
\* DifficultyDistribution (pydantic model)
\* ------------------------------------------------------------------------
\* The fields in declaration order; pydantic validates them in this order.
DifficultyFields == <<"Easy", "Medium", "Hard">>

\* Field(..., ge=0, le=100)
FieldInRange(x) == x >= 0 /\ x <= 100

\* The `values` argument the validator receives while field number k is
\* validated: the fields validated successfully before it.
ValuesBefore(d, k) ==
    LET names == {DifficultyFields[j] : j \in {j \in 1..(k - 1) : FieldInRange(d[DifficultyFields[j]])}}
    IN  [f \in names |-> d[f]]

\* check_sum(cls, v, values): TRUE when it returns v, FALSE when it raises.
check_sum(values) ==
    IF "Easy" \in DOMAIN values /\ "Medium" \in DOMAIN values /\ "Hard" \in DOMAIN values
    THEN values["Easy"] + values["Medium"] + values["Hard"] = 100
    ELSE TRUE

\* Construction of a DifficultyDistribution succeeds.
DifficultyDistribution(d) ==
    \A k \in 1..3 : FieldInRange(d[DifficultyFields[k]]) /\ check_sum(ValuesBefore(d, k))

\* ------------------------------------------------------------------------
\* Answer normalization (the mapping logic of generate_assessment_questions)
\* ------------------------------------------------------------------------
\* The mapping logic with its membership test `ca not in [A, B, C, D]` dropped.
MapAnswerNoLabelTest(q) ==
    LET options == q.options
        ca == q.correct_answer
    IN  IF IsStr(ca) /\ ca \in Range(options)
        THEN [q EXCEPT !.correct_answer = Chr65(ListIndex(options, ca))]
        ELSE q

\* The mapping logic taking the last matching position instead of the first.
MapAnswerLastIndex(q) ==
    LET options == q.options
        ca == q.correct_answer
    IN  IF IsStr(ca) /\ ca \notin CanonicalLabels /\ ca \in Range(options)
        THEN [q EXCEPT !.correct_answer =
                 Chr65((CHOOSE k \in 1..Len(options) :
                           options[k] = ca /\ \A j \in (k + 1)..Len(options) : options[j] # ca) - 1)]
        ELSE q

\* The mapping logic overwriting an unmatched answer with the first label.
MapAnswerDefaultA(q) ==
    LET options == q.options
        ca == q.correct_answer
    IN  IF IsStr(ca) /\ ca \notin CanonicalLabels
        THEN IF ca \in Range(options)
             THEN [q EXCEPT !.correct_answer = Chr65(ListIndex(options, ca))]
             ELSE [q EXCEPT !.correct_answer = "A"]
        ELSE q

MapAnswer(q) ==
    LET options == q.options
        ca == q.correct_answer
    IN  IF IsStr(ca) /\ ca \notin CanonicalLabels
        THEN IF ca \in Range(options)
             THEN [q EXCEPT !.correct_answer = Chr65(ListIndex(options, ca))]
             ELSE q
        ELSE q

\* ------------------------------------------------------------------------
\* Exam scoring test (frontend)
\* ------------------------------------------------------------------------
\* A scoring test that compares the selected option's text.
ScoredCorrectByText(q, selected_idx) == q.options[selected_idx + 1] = q.correct_answer

\* selected_label == data['correct_label'] for the selected index
ScoredCorrect(q, selected_idx) == Chr65(selected_idx) = q.correct_answer

\* ------------------------------------------------------------------------
\* Request schemas
\* ------------------------------------------------------------------------
Difficulty(e, m, h) == [Easy |-> e, Medium |-> m, Hard |-> h]
Topic(name, count, d) == [topic_name |-> name, count |-> count, difficulty |-> d]

\* TopicConfig: topic_name is any str, count has gt=0, difficulty is a
\* DifficultyDistribution.
TopicConfig(t) == t.count > 0 /\ DifficultyDistribution(t.difficulty)

\* AssessmentCreateRequest: topics has min_items=1 and every item validates.
AssessmentCreateRequest(topics) ==
    Len(topics) >= 1 /\ \A k \in 1..Len(topics) : TopicConfig(topics[k])

\* What the spec calls a well-formed TopicRequest / DifficultySpec.
WellFormedDifficulty(d) ==
    /\ \A k \in 1..3 : FieldInRange(d[DifficultyFields[k]])
    /\ d.Easy + d.Medium + d.Hard = 100
WellFormedTopic(t) == t.topic_name # "" /\ t.count > 0 /\ WellFormedDifficulty(t.difficulty)

\* The topic configurations requests are drawn from: two well-formed ones
\* and one for each kind of malformed input.
TopicInputs ==
    { Topic("T1", 1, Difficulty(30, 40, 30)),
      Topic("T2", 2, Difficulty(50, 50, 0)),
      Topic("",   1, Difficulty(30, 40, 30)),
      Topic("T1", 0, Difficulty(30, 40, 30)),
      Topic("T1", 1, Difficulty(30, 40, 31)) }

SeqsUpTo(S, n) == UNION {[1..k -> S] : k \in 0..n}

RequestInputs == SeqsUpTo(TopicInputs, MaxTopics)

\* ------------------------------------------------------------------------
\* Generation service and generate_questions
\* ------------------------------------------------------------------------
\* The question texts of the three responses the service may give to a call.
QuestionTexts ==
    << <<"a1", "a2", "a3", "a4", "a5", "a6">>,
       <<"b1", "b2", "b3", "b4", "b5", "b6">>,
       <<"c1", "c2", "c3", "c4", "c5", "c6">> >>
ServiceOptions == <<"w", "x", "y", "z">>
\* correct_answer as the service emits it: a label, the text of an option,
\* or a text that is neither.
AnswerForms == <<"B", "y", "none">>

ServiceItem(k, f) ==
    [question_text  |-> QuestionTexts[f + 1][k],
     options        |-> ServiceOptions,
     correct_answer |-> AnswerForms[((k + f) % 3) + 1],
     difficulty     |-> "Easy",
     topic          |-> NoField,
     topic_display  |-> NoField]

\* An object literal whose question text holds the word json, and one that
\* lacks correct_answer and difficulty.
JsonWordItem == [ServiceItem(1, 0) EXCEPT !.question_text = "What is json?"]
PartialItem == [ServiceItem(1, 0) EXCEPT !.correct_answer = NoField, !.difficulty = NoField]

\* response.text as a sequence of lexical pieces: "fence" (three backticks),
\* "tag" (the word json outside any string literal), "ws" (blanks and line
\* breaks), "lbr", "rbr", "comma", "obj" (an object literal, whose members
\* are in obj), "num" (a number literal) and "word" (any other prose).
NoObject ==
    [question_text |-> NoField, options |-> <<>>, correct_answer |-> NoField,
     difficulty |-> NoField, topic |-> NoField, topic_display |-> NoField]
Tok(t) == [t |-> t, obj |-> NoObject]
ObjTok(item) == [t |-> "obj", obj |-> item]

RECURSIVE Separated(_)
\* The pieces of item, item, ..., item
Separated(items) ==
    IF Len(items) = 0 THEN <<>>
    ELSE IF Len(items) = 1 THEN <<ObjTok(items[1])>>
    ELSE <<ObjTok(items[1]), Tok("comma")>> \o Separated(Tail(items))

\* The text of a JSON array of object literals.
ArrayText(items) == <<Tok("lbr")>> \o Separated(items) \o <<Tok("rbr")>>

\* A text wrapped in a code fence with the language tag json.
Fenced(text) ==
    <<Tok("fence"), Tok("tag"), Tok("ws")>> \o text \o <<Tok("ws"), Tok("fence")>>

RECURSIVE LStrip(_, _)
LStrip(s, t) == IF Len(s) > 0 /\ s[1].t = t THEN LStrip(Tail(s), t) ELSE s
RECURSIVE RStrip(_, _)
RStrip(s, t) ==
    IF Len(s) > 0 /\ s[Len(s)].t = t THEN RStrip(SubSeq(s, 1, Len(s) - 1), t) ELSE s
\* str.strip() for t = "ws", str.strip("`") for t = "fence": every leading
\* and trailing piece of the kind goes.
StrStrip(s, t) == RStrip(LStrip(s, t), t)

\* str.replace("json", "") on the content of a string literal.
StrReplaceJson(str) == IF str = "What is json?" THEN "What is ?" ELSE str

\* .replace("json", "") over the whole text: the tag goes wherever it stands,
\* and so does the word inside every string literal.
ReplaceJson(s) ==
    LET kept == SelectSeq(s, LAMBDA tok : tok.t # "tag")
        inside(q) == [q EXCEPT
                        !.question_text  = StrReplaceJson(q.question_text),
                        !.options        = [k \in 1..Len(q.options) |-> StrReplaceJson(q.options[k])],
                        !.correct_answer = StrReplaceJson(q.correct_answer),
                        !.difficulty     = StrReplaceJson(q.difficulty)]
    IN  [k \in 1..Len(kept) |->
            IF kept[k].t = "obj" THEN ObjTok(inside(kept[k].obj)) ELSE kept[k]]

\* content = response.text.strip(); if content.startswith("```"):
\*     content = content.strip("`").replace("json", "")
CleanContent(text) ==
    LET content == StrStrip(text, "ws")
    IN  IF Len(content) > 0 /\ content[1].t = "fence"
        THEN ReplaceJson(StrStrip(content, "fence"))
        ELSE content

\* json.loads(content): the value (an array of objects, an array with a
\* number in it, one object, one number) or JSONDecodeError.  An array's value
\* is the list of its objects, an object's value is the object itself.
JsonLoads(content) ==
    LET s == SelectSeq(content, LAMBDA tok : tok.t # "ws")
        n == Len(s)
        literal(tok) == tok.t \in {"obj", "num"}
        is_array ==
            /\ n >= 2 /\ s[1].t = "lbr" /\ s[n].t = "rbr"
            /\ \/ n = 2
               \/ /\ n % 2 = 1
                  /\ \A k \in 2..(n - 1) : IF k % 2 = 0 THEN literal(s[k]) ELSE s[k].t = "comma"
        elements == SelectSeq(s, LAMBDA tok : tok.t = "obj")
    IN  IF n = 1 /\ s[1].t = "obj"
        THEN [raised |-> FALSE, kind |-> "object", value |-> <<s[1].obj>>]
        ELSE IF n = 1 /\ s[1].t = "num"
        THEN [raised |-> FALSE, kind |-> "number", value |-> <<>>]
        ELSE IF is_array
        THEN [raised |-> FALSE,
              kind   |-> IF \E k \in 1..n : s[k].t = "num" THEN "array of numbers" ELSE "array",
              value  |-> [k \in 1..Len(elements) |-> elements[k].obj]]
        ELSE [raised |-> TRUE, kind |-> "none", value |-> <<>>]

\* What the external service does with one call: the call fails, or it
\* answers a text.
CallFailure == [ok |-> FALSE, text |-> <<>>]
Answer(text) == [ok |-> TRUE, text |-> text]

\* The answers the endpoints are run against: arrays of up to MaxGen items, a
\* fenced array, a fenced array with the word json inside a question, a
\* fenced array followed by a stray word json, an array with an item lacking
\* fields, a single object, a number, and prose.
ServiceOutcomes ==
    {CallFailure} \cup
    {Answer(ArrayText([k \in 1..n |-> ServiceItem(k, f)])) : n \in 0..MaxGen, f \in 0..2} \cup
    { Answer(Fenced(ArrayText(<<ServiceItem(1, 0), ServiceItem(2, 0)>>))),
      Answer(Fenced(ArrayText(<<JsonWordItem>>))),
      Answer(Fenced(ArrayText(<<ServiceItem(1, 1)>>) \o <<Tok("ws"), Tok("tag")>>)),
      Answer(ArrayText(<<PartialItem>>)),
      Answer(<<ObjTok(ServiceItem(1, 0))>>),
      Answer(<<Tok("num")>>),
      Answer(<<Tok("word")>>) }

\* ValueError("Failed to generate valid questions from AI."): the message is
\* all the exception carries.
GenerationError == [message |-> "Failed to generate valid questions from AI.", attachments |-> <<>>]
NoError == [message |-> "", attachments |-> <<>>]

\* generate_questions: whatever json.loads gave, or ValueError on any
\* exception; the raw response goes to standard output when there is one.
generate_questions(outcome) ==
    LET loaded == JsonLoads(CleanContent(outcome.text))
    IN  IF outcome.ok /\ ~loaded.raised
        THEN [raised |-> FALSE, kind |-> loaded.kind, value |-> loaded.value,
              error |-> NoError, printed |-> <<>>]
        ELSE [raised |-> TRUE, kind |-> "none", value |-> <<>>,
              error |-> GenerationError,
              printed |-> IF outcome.ok THEN <<outcome.text>> ELSE <<>>]

\* ------------------------------------------------------------------------
\* Assembly helpers
\* ------------------------------------------------------------------------
\* A truncation keeping the last `count` items.
TruncateLast(generated, count) ==
    IF Len(generated) > count
    THEN SubSeq(generated, Len(generated) - count + 1, Len(generated))
    ELSE generated

\* No truncation at all.
TruncateNever(generated, count) == generated

\* if len(generated) > count: generated = generated[:count]
Truncate(generated, count) ==
    IF Len(generated) > count THEN SubSeq(generated, 1, count) ELSE generated

\* for q in generated_questions: q['topic'] = topic_config.topic_name
TagTopic(generated, name) ==
    [k \in 1..Len(generated) |-> [generated[k] EXCEPT !.topic = name]]

\* dict.get(key): the value, or None when the key is absent
Get(rec, key) == IF key \in DOMAIN rec THEN rec[key] ELSE NoField

\* topic_config.get('topic_name') or topic_config.get('topic')
ConfigTopicName(cfg) ==
    IF Get(cfg, "topic_name") \notin {NoField, ""}
    THEN Get(cfg, "topic_name")
    ELSE Get(cfg, "topic")

\* The loop body of generate_assessment_questions over a truncated list:
\* the mapping logic, then q['topic_display'] = ...
MapAndTag(generated, name) ==
    [k \in 1..Len(generated) |-> [MapAnswer(generated[k]) EXCEPT !.topic_display = name]]

\* What the loop body does with a value that is not a list of objects:
\* len() of a number, a slice of or an item assignment into the keys of an
\* object, an item assignment into a number all raise.
LoopRaises(res) == res.kind # "array"

\* q['question_text'], q['options'], q['correct_answer'], q['difficulty']
\* in save_questions_to_db: KeyError when a key is absent.
RequiredKeys == {"question_text", "correct_answer", "difficulty"}
KeyErrorIn(qs) == \E k \in 1..Len(qs) : \E key \in RequiredKeys : qs[k][key] = NoField

\* An extend that puts the new topic's questions in front.
ExtendFront(all_generated_questions, generated) == generated \o all_generated_questions

\* all_generated_questions.extend(generated)
Extend(all_generated_questions, generated) == all_generated_questions \o generated

RECURSIVE SumCounts(_)
\* sum(t.count for t in request.topics)
SumCounts(topics) ==
    IF Len(topics) = 0 THEN 0 ELSE topics[1].count + SumCounts(Tail(topics))

\* The row create_assessment_record inserts; the datastore assigns the id.
AssessmentRow(id, topics_config, total, type) ==
    [id |-> id, topic |-> topics_config, total_questions |-> total,
     difficulty_distribution |-> topics_config, type |-> type]

\* The rows save_questions_to_db inserts.
QuestionRows(assessment_id, qs) ==
    [k \in 1..Len(qs) |->
        [assessment_id  |-> assessment_id,
         topic          |-> IF qs[k].topic = NoField THEN "General" ELSE qs[k].topic,
         question_text  |-> qs[k].question_text,
         options        |-> qs[k].options,
         correct_answer |-> qs[k].correct_answer,
         difficulty     |-> qs[k].difficulty]]

\* ------------------------------------------------------------------------
\* State
\* ------------------------------------------------------------------------
\* The frame of a request: the handler's local variables, its position and
\* the response it ended with (status 0: none yet).
IdleFrame ==
    [op |-> "none", pc |-> "idle", role |-> "none", topics |-> <<>>,
     assessment_id |-> 0, i |-> 0, returned |-> <<>>, generated |-> <<>>,
     all_generated_questions |-> <<>>, calls |-> 0, call_log |-> <<>>, writes |-> 0,
     status |-> 0, detail |-> "", total_questions |-> 0, user_id |-> "", score |-> 0]

\* The datastore before the request: empty, or holding one assessment that an
\* earlier create_assessment saved (its second topic came back short).
PriorConfig == <<Topic("T1", 1, Difficulty(30, 40, 30)), Topic("T2", 2, Difficulty(50, 50, 0))>>
PriorAssessments == <<AssessmentRow(1, PriorConfig, 3, "AI")>>
PriorQuestions ==
    QuestionRows(1, TagTopic(<<ServiceItem(1, 0)>>, "T1") \o TagTopic(<<ServiceItem(1, 1)>>, "T2"))

\* A configuration saved by create_assessment_config whose topic has an empty
\* name (TopicConfig accepts it); no questions are stored for it.
UnnamedConfig == <<Topic("", 1, Difficulty(30, 40, 30))>>
UnnamedAssessments == <<AssessmentRow(1, UnnamedConfig, 1, "AI")>>

\* A score an earlier submit_submission saved for the stored assessment.
PriorSubmissions == <<[student_id |-> "S1", assessment_id |-> 1, score |-> 60]>>

\* The questions of a ManualAssessmentRequest.
ManualQuestion(text, answer) ==
    [question_text |-> text, options |-> ServiceOptions, correct_answer |-> answer,
     difficulty |-> "Medium"]
ManualQuestions == <<ManualQuestion("m1", "A"), ManualQuestion("m2", "C")>>

\* The row create_manual_assessment inserts, and its question rows.
ManualAssessmentRow(id, topic, n) ==
    [id |-> id, topic |-> <<[name |-> topic, count |-> n]>>, total_questions |-> n,
     difficulty_distribution |-> [type |-> "manual"], type |-> "Manual"]
ManualQuestionRows(assessment_id, topic, qs) ==
    [k \in 1..Len(qs) |->
        [assessment_id  |-> assessment_id,
         topic          |-> topic,
         question_text  |-> qs[k].question_text,
         options        |-> qs[k].options,
         correct_answer |-> qs[k].correct_answer,
         difficulty     |-> qs[k].difficulty]]

\* A datastore holding one assessment that create_manual_assessment saved.
ManualAssessments == <<ManualAssessmentRow(1, "M1", 2)>>
ManualStored == ManualQuestionRows(1, "M1", ManualQuestions)

InitialStores ==
    { <<(<<>>), (<<>>), (<<>>)>>,
      <<PriorAssessments, PriorQuestions, PriorSubmissions>>,
      <<UnnamedAssessments, (<<>>), (<<>>)>>,
      <<ManualAssessments, ManualStored, (<<>>)>> }

DifficultyOff == [in |-> Difficulty(0, 0, 0), pc |-> "off", ok |-> FALSE]
ScoringOff ==
    [pc |-> "off", table |-> <<>>, assessment_id |-> 0, submissions |-> <<>>,
     student_best_scores |-> <<>>, results_list |-> <<>>]
GeneratorOff == [pc |-> "off", outcome |-> CallFailure, result |-> generate_questions(CallFailure)]
NoUser == [id |-> "", role |-> ""]
AuthOff ==
    [pc |-> "off",
     token |-> [decodable |-> FALSE, issuer |-> "nobody", expired |-> FALSE, sub |-> "", role |-> ""],
     status |-> 0, detail |-> "", user |-> NoUser]
\* The browser session before anything happened: st.session_state holds no
\* token and no exam key (exam_id 0, exam_type "": key absent), and
\* st.query_params has no exam entry.
ExamOff ==
    [pc |-> "off", token |-> FALSE, exam_param |-> FALSE, exam_id |-> 0, exam_type |-> "",
     has_questions |-> FALSE, exam_questions |-> <<>>, fetches |-> 0,
     screen |-> "login", shown |-> <<>>, answered_form |-> <<>>, selections |-> <<>>,
     scored |-> <<>>, posted |-> FALSE, score |-> 0]
NormalizerOff ==
    [in |-> ServiceItem(1, 0), out |-> ServiceItem(1, 0), pc |-> "off",
     selected_idx |-> 0, correct |-> FALSE]

Init ==
    /\ \E db \in InitialStores :
          assessments = db[1] /\ questions = db[2] /\ submissions = db[3]
    /\ req = [r \in {1} |-> IdleFrame]
    /\ db0 = <<assessments, questions, submissions>>
    /\ auth = AuthOff /\ ui = ExamOff
    /\ dd = DifficultyOff
    /\ nq = NormalizerOff
    /\ agg = ScoringOff
    /\ gq = GeneratorOff

Roles == {"student", "admin"}

\* What get_current_user returns for the users of the model.
CurrentUsers ==
    { [id |-> "S1", role |-> "student"],
      [id |-> "S2", role |-> "student"],
      [id |-> "P1", role |-> "admin"] }

\* ------------------------------------------------------------------------
\* POST /admin/assessments  (create_assessment)
\* ------------------------------------------------------------------------
\* The request body is validated, then create_assessment_record inserts the
\* assessment row.
CreateAssessment_Receive(r, topics, dbok) ==
    /\ req[r].pc = "idle"
    /\ IF ~AssessmentCreateRequest(topics)
       THEN /\ req' = [req EXCEPT ![r] = [IdleFrame EXCEPT
                        !.op = "create_assessment", !.topics = topics,
                        !.pc = "done", !.status = 422, !.detail = "validation error"]]
            /\ UNCHANGED assessments
       ELSE IF dbok
       THEN /\ assessments' = Append(assessments,
                    AssessmentRow(Len(assessments) + 1, topics, SumCounts(topics), "AI"))
            /\ req' = [req EXCEPT ![r] = [IdleFrame EXCEPT
                        !.op = "create_assessment", !.topics = topics,
                        !.assessment_id = Len(assessments) + 1,
                        !.i = 1, !.writes = 1, !.pc = "gen"]]
       ELSE /\ req' = [req EXCEPT ![r] = [IdleFrame EXCEPT
                        !.op = "create_assessment", !.topics = topics,
                        !.writes = 1, !.pc = "done", !.status = 500,
                        !.detail = "Failed to create assessment record."]]
            /\ UNCHANGED assessments
    /\ UNCHANGED <<questions, db0, dd, nq, agg, gq, submissions, auth, ui>>

\* The generation loop with an except branch that saves what the earlier
\* topics produced before it reports the failure.
CreateAssessment_GenerateFlush(r, outcome) ==
    LET f == req[r]
        topic_config == f.topics[f.i]
        res == generate_questions(outcome)
        logged == Append(f.call_log, [topic |-> f.i, outcome |-> outcome, raised |-> res.raised,
                                      kind |-> res.kind, value |-> res.value])
        loop_raised == res.raised \/ LoopRaises(res)
        generated_questions == TagTopic(Truncate(res.value, topic_config.count),
                                        topic_config.topic_name)
    IN  /\ f.op = "create_assessment" /\ f.pc = "gen"
        /\ IF loop_raised
           THEN /\ req' = [req EXCEPT ![r] = [f EXCEPT
                        !.calls = f.calls + 1, !.call_log = logged,
                        !.pc = "done", !.status = 500,
                        !.detail = "Unexpected error during generation."]]
                /\ questions' = questions \o QuestionRows(f.assessment_id, f.all_generated_questions)
           ELSE /\ req' = [req EXCEPT ![r] = [f EXCEPT
                        !.calls = f.calls + 1, !.call_log = logged,
                        !.returned = res.value,
                        !.generated = generated_questions,
                        !.all_generated_questions = Extend(f.all_generated_questions, generated_questions),
                        !.i = f.i + 1,
                        !.pc = IF f.i + 1 > Len(f.topics) THEN "save" ELSE "gen"]]
                /\ UNCHANGED questions
        /\ UNCHANGED <<assessments, db0, dd, nq, agg, gq, submissions, auth, ui>>

\* The generation loop calling a failed topic a second time.
CreateAssessment_GenerateRetry(r, outcome) ==
    LET f == req[r]
        topic_config == f.topics[f.i]
        res == generate_questions(outcome)
        logged == Append(f.call_log, [topic |-> f.i, outcome |-> outcome, raised |-> res.raised,
                                      kind |-> res.kind, value |-> res.value])
        loop_raised == res.raised \/ LoopRaises(res)
        generated_questions == TagTopic(Truncate(res.value, topic_config.count),
                                        topic_config.topic_name)
        retried == \E k \in 1..Len(f.call_log) : f.call_log[k].raised
    IN  /\ f.op = "create_assessment" /\ f.pc = "gen"
        /\ IF loop_raised
           THEN req' = [req EXCEPT ![r] = [f EXCEPT
                        !.calls = f.calls + 1, !.call_log = logged,
                        !.pc = IF retried THEN "done" ELSE "gen",
                        !.status = IF retried THEN 500 ELSE 0,
                        !.detail = IF retried THEN "Unexpected error during generation." ELSE ""]]
           ELSE req' = [req EXCEPT ![r] = [f EXCEPT
                        !.calls = f.calls + 1, !.call_log = logged,
                        !.returned = res.value,
                        !.generated = generated_questions,
                        !.all_generated_questions = Extend(f.all_generated_questions, generated_questions),
                        !.i = f.i + 1,
                        !.pc = IF f.i + 1 > Len(f.topics) THEN "save" ELSE "gen"]]
        /\ UNCHANGED <<assessments, questions, db0, dd, nq, agg, gq, submissions, auth, ui>>

\* One iteration of the generation loop: the call, the truncation, the
\* tagging and the extend; an exception ends the request with 500.
CreateAssessment_Generate(r, outcome) ==
    LET f == req[r]
        topic_config == f.topics[f.i]
        res == generate_questions(outcome)
        logged == Append(f.call_log, [topic |-> f.i, outcome |-> outcome, raised |-> res.raised,
                                      kind |-> res.kind, value |-> res.value])
        loop_raised == res.raised \/ LoopRaises(res)
        generated_questions == TagTopic(Truncate(res.value, topic_config.count),
                                        topic_config.topic_name)
    IN  /\ f.op = "create_assessment" /\ f.pc = "gen"
        /\ IF loop_raised
           THEN req' = [req EXCEPT ![r] = [f EXCEPT
                        !.calls = f.calls + 1, !.call_log = logged,
                        !.pc = "done", !.status = 500,
                        !.detail = "Unexpected error during generation."]]
           ELSE req' = [req EXCEPT ![r] = [f EXCEPT
                        !.calls = f.calls + 1, !.call_log = logged,
                        !.returned = res.value,
                        !.generated = generated_questions,
                        !.all_generated_questions = Extend(f.all_generated_questions, generated_questions),
                        !.i = f.i + 1,
                        !.pc = IF f.i + 1 > Len(f.topics) THEN "save" ELSE "gen"]]
        /\ UNCHANGED <<assessments, questions, db0, dd, nq, agg, gq, submissions, auth, ui>>

\* A save step that answers 201 whether or not the insert went through.
CreateAssessment_SaveAlways201(r, dbok) ==
    LET f == req[r]
    IN  /\ f.op = "create_assessment" /\ f.pc = "save"
        /\ IF KeyErrorIn(f.all_generated_questions)
           THEN /\ req' = [req EXCEPT ![r] = [f EXCEPT
                        !.pc = "done", !.status = 500, !.detail = "Internal Server Error"]]
                /\ UNCHANGED questions
           ELSE /\ questions' = IF dbok
                                THEN questions \o QuestionRows(f.assessment_id, f.all_generated_questions)
                                ELSE questions
                /\ req' = [req EXCEPT ![r] = [f EXCEPT
                        !.writes = f.writes + 1, !.pc = "done", !.status = 201,
                        !.total_questions = Len(f.all_generated_questions)]]
        /\ UNCHANGED <<assessments, db0, dd, nq, agg, gq, submissions, auth, ui>>

\* A save step that files the rows under the newest assessment record instead
\* of the one this request created.
CreateAssessment_SaveUnderNewest(r, dbok) ==
    LET f == req[r]
    IN  /\ f.op = "create_assessment" /\ f.pc = "save"
        /\ IF KeyErrorIn(f.all_generated_questions)
           THEN /\ req' = [req EXCEPT ![r] = [f EXCEPT
                        !.pc = "done", !.status = 500, !.detail = "Internal Server Error"]]
                /\ UNCHANGED questions
           ELSE IF dbok
           THEN /\ questions' = questions \o QuestionRows(Len(assessments), f.all_generated_questions)
                /\ req' = [req EXCEPT ![r] = [f EXCEPT
                        !.writes = f.writes + 1, !.pc = "done", !.status = 201,
                        !.total_questions = Len(f.all_generated_questions)]]
           ELSE /\ req' = [req EXCEPT ![r] = [f EXCEPT
                        !.writes = f.writes + 1, !.pc = "done", !.status = 500,
                        !.detail = "Failed to save generated questions."]]
                /\ UNCHANGED questions
        /\ UNCHANGED <<assessments, db0, dd, nq, agg, gq, submissions, auth, ui>>

\* save_questions_to_db, then the 201 response.  A KeyError while the rows
\* are built is handled by nobody: the framework answers 500.
CreateAssessment_Save(r, dbok) ==
    LET f == req[r]
    IN  /\ f.op = "create_assessment" /\ f.pc = "save"
        /\ IF KeyErrorIn(f.all_generated_questions)
           THEN /\ req' = [req EXCEPT ![r] = [f EXCEPT
                        !.pc = "done", !.status = 500, !.detail = "Internal Server Error"]]
                /\ UNCHANGED questions
           ELSE IF dbok
           THEN /\ questions' = questions \o QuestionRows(f.assessment_id, f.all_generated_questions)
                /\ req' = [req EXCEPT ![r] = [f EXCEPT
                        !.writes = f.writes + 1, !.pc = "done", !.status = 201,
                        !.total_questions = Len(f.all_generated_questions)]]
           ELSE /\ req' = [req EXCEPT ![r] = [f EXCEPT
                        !.writes = f.writes + 1, !.pc = "done", !.status = 500,
                        !.detail = "Failed to save generated questions."]]
                /\ UNCHANGED questions
        /\ UNCHANGED <<assessments, db0, dd, nq, agg, gq, submissions, auth, ui>>

\* ------------------------------------------------------------------------
\* GET /student/assessments/{assessment_id}/generate
\* ------------------------------------------------------------------------
\* The role check and the read of the stored configuration.  A lookup that
\* finds no row ends the request with an error status.
GenerateQuestions_Receive(r, assessment_id, role, notfound_status) ==
    LET found == {k \in 1..Len(assessments) : assessments[k].id = assessment_id}
        config_list == assessments[CHOOSE k \in found : TRUE].topic
        base == [IdleFrame EXCEPT !.op = "generate_assessment_questions",
                                  !.role = role, !.assessment_id = assessment_id]
    IN  /\ req[r].pc = "idle"
        /\ req' = [req EXCEPT ![r] =
              IF role # "student"
              THEN [base EXCEPT !.pc = "done", !.status = 403, !.detail = "Students only."]
              ELSE IF found = {}
              THEN [base EXCEPT !.pc = "done", !.status = notfound_status,
                                !.detail = "Assessment not found"]
              ELSE IF Len(config_list) = 0
              THEN [base EXCEPT !.pc = "done", !.status = 400,
                                !.detail = "Assessment configuration is missing."]
              ELSE [base EXCEPT !.topics = config_list, !.i = 1, !.pc = "gen"]]
        /\ UNCHANGED <<assessments, questions, db0, dd, nq, agg, gq, submissions, auth, ui>>

\* The on-the-fly loop keeping what it generated in the questions table.
GenerateQuestions_GenerateSaving(r, outcome) ==
    LET f == req[r]
        topic_config == f.topics[f.i]
        res == generate_questions(outcome)
        logged == Append(f.call_log, [topic |-> f.i, outcome |-> outcome, raised |-> res.raised,
                                      kind |-> res.kind, value |-> res.value])
        loop_raised == res.raised \/ LoopRaises(res)
        generated == MapAndTag(Truncate(res.value, Get(topic_config, "count")),
                               ConfigTopicName(topic_config))
        last == f.i + 1 > Len(f.topics)
    IN  /\ f.op = "generate_assessment_questions" /\ f.pc = "gen"
        /\ IF loop_raised
           THEN req' = [req EXCEPT ![r] = [f EXCEPT
                        !.calls = f.calls + 1, !.call_log = logged,
                        !.pc = "done", !.status = 500,
                        !.detail = "Failed to generate questions."]]
           ELSE req' = [req EXCEPT ![r] = [f EXCEPT
                        !.calls = f.calls + 1, !.call_log = logged,
                        !.returned = res.value,
                        !.generated = generated,
                        !.all_generated_questions = Extend(f.all_generated_questions, generated),
                        !.i = f.i + 1,
                        !.pc = IF last THEN "done" ELSE "gen",
                        !.status = IF last THEN 200 ELSE 0]]
        /\ questions' = IF loop_raised THEN questions
                         ELSE questions \o QuestionRows(f.assessment_id, generated)
        /\ UNCHANGED <<assessments, db0, dd, nq, agg, gq, submissions, auth, ui>>

\* One iteration of the generation loop; after the last one the assembled
\* list is returned.
GenerateQuestions_Generate(r, outcome) ==
    LET f == req[r]
        topic_config == f.topics[f.i]
        res == generate_questions(outcome)
        logged == Append(f.call_log, [topic |-> f.i, outcome |-> outcome, raised |-> res.raised,
                                      kind |-> res.kind, value |-> res.value])
        loop_raised == res.raised \/ LoopRaises(res)
        generated == MapAndTag(Truncate(res.value, Get(topic_config, "count")),
                               ConfigTopicName(topic_config))
        last == f.i + 1 > Len(f.topics)
    IN  /\ f.op = "generate_assessment_questions" /\ f.pc = "gen"
        /\ IF loop_raised
           THEN req' = [req EXCEPT ![r] = [f EXCEPT
                        !.calls = f.calls + 1, !.call_log = logged,
                        !.pc = "done", !.status = 500,
                        !.detail = "Failed to generate questions."]]
           ELSE req' = [req EXCEPT ![r] = [f EXCEPT
                        !.calls = f.calls + 1, !.call_log = logged,
                        !.returned = res.value,
                        !.generated = generated,
                        !.all_generated_questions = Extend(f.all_generated_questions, generated),
                        !.i = f.i + 1,
                        !.pc = IF last THEN "done" ELSE "gen",
                        !.status = IF last THEN 200 ELSE 0]]
        /\ UNCHANGED <<assessments, questions, db0, dd, nq, agg, gq, submissions, auth, ui>>

\* ------------------------------------------------------------------------
\* GET /student/assessments/{assessment_id}/questions
\* ------------------------------------------------------------------------
\* The role check, the type of the assessment, then the stored questions.
GetAssessmentQuestions(r, assessment_id, user, notfound_status) ==
    LET found == {k \in 1..Len(assessments) : assessments[k].id = assessment_id}
        row == assessments[CHOOSE k \in found : TRUE]
        base == [IdleFrame EXCEPT !.op = "get_assessment_questions", !.role = user.role,
                                  !.user_id = user.id, !.assessment_id = assessment_id]
    IN  /\ req[r].pc = "idle"
        /\ req' = [req EXCEPT ![r] =
              IF user.role # "student"
              THEN [base EXCEPT !.pc = "done", !.status = 403, !.detail = "Students only."]
              ELSE IF found = {}
              THEN [base EXCEPT !.pc = "done", !.status = notfound_status,
                                !.detail = "Assessment is not Manual or not found."]
              ELSE IF row.type # "Manual"
              THEN [base EXCEPT !.pc = "done", !.status = 400,
                                !.detail = "Assessment is not Manual or not found."]
              ELSE [base EXCEPT !.pc = "done", !.status = 200,
                                !.returned = SelectSeq(questions,
                                    LAMBDA q : q.assessment_id = assessment_id)]]
        /\ UNCHANGED <<assessments, questions, db0, dd, nq, agg, gq, submissions, auth, ui>>

\* ------------------------------------------------------------------------
\* POST /student/submissions
\* ------------------------------------------------------------------------
\* A submit_submission that takes the student id from the request body.
SubmitSubmissionForAnyone(r, user, assessment_id, score, dbok) ==
    LET base == [IdleFrame EXCEPT !.op = "submit_submission", !.role = user.role,
                                  !.user_id = user.id, !.assessment_id = assessment_id,
                                  !.score = score]
    IN  /\ req[r].pc = "idle"
        /\ IF dbok
           THEN /\ submissions' = Append(submissions,
                      [student_id |-> "S1", assessment_id |-> assessment_id, score |-> score])
                /\ req' = [req EXCEPT ![r] = [base EXCEPT
                      !.writes = 1, !.pc = "done", !.status = 200,
                      !.detail = "Score saved successfully"]]
           ELSE /\ req' = [req EXCEPT ![r] = [base EXCEPT
                      !.writes = 1, !.pc = "done", !.status = 500,
                      !.detail = "Failed to save score."]]
                /\ UNCHANGED submissions
        /\ UNCHANGED <<assessments, questions, db0, dd, nq, agg, gq, auth, ui>>

\* The role check, then the insert of the score under current_user['id'].
SubmitSubmission(r, user, assessment_id, score, dbok) ==
    LET base == [IdleFrame EXCEPT !.op = "submit_submission", !.role = user.role,
                                  !.user_id = user.id, !.assessment_id = assessment_id,
                                  !.score = score]
    IN  /\ req[r].pc = "idle"
        /\ IF user.role # "student"
           THEN /\ req' = [req EXCEPT ![r] = [base EXCEPT
                      !.pc = "done", !.status = 403, !.detail = "Students only."]]
                /\ UNCHANGED submissions
           ELSE IF dbok
           THEN /\ submissions' = Append(submissions,
                      [student_id |-> user.id, assessment_id |-> assessment_id, score |-> score])
                /\ req' = [req EXCEPT ![r] = [base EXCEPT
                      !.writes = 1, !.pc = "done", !.status = 200,
                      !.detail = "Score saved successfully"]]
           ELSE /\ req' = [req EXCEPT ![r] = [base EXCEPT
                      !.writes = 1, !.pc = "done", !.status = 500,
                      !.detail = "Failed to save score."]]
                /\ UNCHANGED submissions
        /\ UNCHANGED <<assessments, questions, db0, dd, nq, agg, gq, auth, ui>>

\* ------------------------------------------------------------------------
\* POST /admin/assessments/manual  (create_manual_assessment)
\* ------------------------------------------------------------------------
\* The insert of the assessment record, then the insert of its questions.
CreateManualAssessment(r, topic, qs, dbok, qok) ==
    LET id == Len(assessments) + 1
        base == [IdleFrame EXCEPT !.op = "create_manual_assessment"]
    IN  /\ req[r].pc = "idle"
        /\ IF ~dbok
           THEN /\ req' = [req EXCEPT ![r] = [base EXCEPT
                      !.writes = 1, !.pc = "done", !.status = 500, !.detail = "DB Error"]]
                /\ UNCHANGED <<assessments, questions>>
           ELSE IF ~qok
           THEN /\ assessments' = Append(assessments, ManualAssessmentRow(id, topic, Len(qs)))
                /\ req' = [req EXCEPT ![r] = [base EXCEPT
                      !.assessment_id = id, !.writes = 2, !.pc = "done", !.status = 500,
                      !.detail = "Failed to save manual questions."]]
                /\ UNCHANGED questions
           ELSE /\ assessments' = Append(assessments, ManualAssessmentRow(id, topic, Len(qs)))
                /\ questions' = questions \o ManualQuestionRows(id, topic, qs)
                /\ req' = [req EXCEPT ![r] = [base EXCEPT
                      !.assessment_id = id, !.writes = 2, !.pc = "done", !.status = 201,
                      !.total_questions = Len(qs)]]
        /\ UNCHANGED <<db0, dd, nq, agg, gq, submissions, auth, ui>>

\* The bodies the manual endpoint and the submission endpoint are run with.
ManualInputs == {SubSeq(ManualQuestions, 1, 1), ManualQuestions}
ScoreInputs == {0, 50, 100}

Next ==
    \/ \E topics \in RequestInputs, dbok \in BOOLEAN : CreateAssessment_Receive(1, topics, dbok)
    \/ \E outcome \in ServiceOutcomes : CreateAssessment_Generate(1, outcome)
    \/ \E dbok \in BOOLEAN : CreateAssessment_Save(1, dbok)
    \/ \E id \in 1..(Len(assessments) + 1), role \in Roles, st \in {404, 500} :
          GenerateQuestions_Receive(1, id, role, st)
    \/ \E outcome \in ServiceOutcomes : GenerateQuestions_Generate(1, outcome)
    \/ \E id \in 1..(Len(assessments) + 1), user \in CurrentUsers, st \in {400, 500} :
          GetAssessmentQuestions(1, id, user, st)
    \/ \E user \in CurrentUsers, id \in 1..(Len(assessments) + 1), score \in ScoreInputs,
          dbok \in BOOLEAN : SubmitSubmission(1, user, id, score, dbok)
    \/ \E qs \in ManualInputs, dbok \in BOOLEAN, qok \in BOOLEAN :
          CreateManualAssessment(1, "M2", qs, dbok, qok)

Spec == Init /\ [][Next]_vars

\* ------------------------------------------------------------------------
\* Two create_assessment requests served concurrently
\* ------------------------------------------------------------------------
\* The handler is a coroutine without an await inside: the event loop runs
\* one request's handler to its end before the next, and several worker
\* processes interleave requests at their datastore and service calls.  The
\* steps of the two requests are interleaved freely here, which covers both.
ConcurrentRequests == {1, 2}

ConcurrentTopics ==
    { <<Topic("T1", 1, Difficulty(30, 40, 30))>>,
      <<Topic("T1", 1, Difficulty(30, 40, 30)), Topic("T2", 2, Difficulty(50, 50, 0))>> }

ConcurrentOutcomes ==
    { CallFailure,
      Answer(ArrayText(<<ServiceItem(1, 0), ServiceItem(2, 0)>>)),
      Answer(ArrayText(<<ServiceItem(1, 1), ServiceItem(2, 1)>>)) }

InitConcurrent ==
    /\ assessments = <<>> /\ questions = <<>> /\ submissions = <<>>
    /\ req = [r \in ConcurrentRequests |-> IdleFrame]
    /\ db0 = <<assessments, questions, submissions>>
    /\ dd = DifficultyOff /\ nq = NormalizerOff /\ agg = ScoringOff /\ gq = GeneratorOff
    /\ auth = AuthOff /\ ui = ExamOff

NextConcurrent ==
    \E r \in ConcurrentRequests :
        \/ \E topics \in ConcurrentTopics, dbok \in BOOLEAN : CreateAssessment_Receive(r, topics, dbok)
        \/ \E outcome \in ConcurrentOutcomes : CreateAssessment_Generate(r, outcome)
        \/ \E dbok \in BOOLEAN : CreateAssessment_Save(r, dbok)

SpecConcurrent == InitConcurrent /\ [][NextConcurrent]_vars

\* ------------------------------------------------------------------------
\* The difficulty validator on its own
\* ------------------------------------------------------------------------
DifficultyValues == {-1, 0, 30, 31, 40, 100, 101}

InitDifficulty ==
    /\ assessments = <<>> /\ questions = <<>>
    /\ req = [r \in {1} |-> IdleFrame]
    /\ submissions = <<>> /\ auth = AuthOff /\ ui = ExamOff
    /\ db0 = <<assessments, questions, submissions>>
    /\ nq = NormalizerOff
    /\ agg = ScoringOff
    /\ gq = GeneratorOff
    /\ \E e \in DifficultyValues, m \in DifficultyValues, h \in DifficultyValues :
          dd = [in |-> Difficulty(e, m, h), pc |-> "new", ok |-> FALSE]

\* DifficultyDistribution(**data): the model is built or ValidationError.
ValidateDifficulty ==
    /\ dd.pc = "new"
    /\ dd' = [dd EXCEPT !.pc = "done", !.ok = DifficultyDistribution(dd.in)]
    /\ UNCHANGED <<assessments, questions, req, db0, nq, agg, gq, submissions, auth, ui>>

NextDifficulty == ValidateDifficulty

SpecDifficulty == InitDifficulty /\ [][NextDifficulty]_vars

\* ------------------------------------------------------------------------
\* The normalizer and the scoring test on their own
\* ------------------------------------------------------------------------
\* Option texts: two plain texts, a text that reads like a label, and a
\* JSON number.
OptionTexts == {"x", "y", "B", "#7"}
AnswerValues == {"A", "B", "C", "D", "x", "y", "none", "#7"}

NormalizerInputs ==
    { [question_text |-> "q1", options |-> o, correct_answer |-> ca,
       difficulty |-> "Easy", topic |-> NoField, topic_display |-> NoField] :
      o \in SeqsUpTo(OptionTexts, MaxOptions), ca \in AnswerValues }

InitNormalizer ==
    /\ assessments = <<>> /\ questions = <<>>
    /\ req = [r \in {1} |-> IdleFrame]
    /\ submissions = <<>> /\ auth = AuthOff /\ ui = ExamOff
    /\ db0 = <<assessments, questions, submissions>>
    /\ dd = DifficultyOff
    /\ agg = ScoringOff
    /\ gq = GeneratorOff
    /\ \E q \in NormalizerInputs :
          nq = [in |-> q, out |-> q, pc |-> "new", selected_idx |-> 0, correct |-> FALSE]

\* The mapping logic applied to one generated question.
Normalize ==
    /\ nq.pc = "new"
    /\ nq' = [nq EXCEPT !.pc = "normalized", !.out = MapAnswer(nq.in)]
    /\ UNCHANGED <<assessments, questions, req, db0, dd, agg, gq, submissions, auth, ui>>

\* The exam page scores the student's selection against the served question.
Score(selected_idx) ==
    /\ nq.pc = "normalized"
    /\ nq' = [nq EXCEPT !.pc = "scored", !.selected_idx = selected_idx,
                        !.correct = ScoredCorrect(nq.out, selected_idx)]
    /\ UNCHANGED <<assessments, questions, req, db0, dd, agg, gq, submissions, auth, ui>>

NextNormalizer ==
    \/ Normalize
    \/ \E s \in 0..(Len(nq.out.options) - 1) : Score(s)

SpecNormalizer == InitNormalizer /\ [][NextNormalizer]_vars

\* ------------------------------------------------------------------------
\* Results view: get_assessment_results and the best-score table
\* ------------------------------------------------------------------------
\* Longest submissions table.
MaxSubmissions == 3

Students == {"S1", "S2"}
Scores == {40, 60, 85}
\* The students row joined to a submission (full_name, email).
StudentInfo(student_id) ==
    IF student_id = "S1"
    THEN [full_name |-> "Ann", email |-> "ann@example.org"]
    ELSE [full_name |-> "Bob", email |-> "bob@example.org"]

SubmissionRow(student_id, assessment_id, score) ==
    [student_id |-> student_id, assessment_id |-> assessment_id, score |-> score,
     students |-> StudentInfo(student_id)]

SubmissionRows(assessment_ids) ==
    {SubmissionRow(st, a, sc) : st \in Students, a \in assessment_ids, sc \in Scores}

\* select(...).eq('assessment_id', assessment_id): the rows of the assessment
RowsOfAssessment(table, assessment_id) ==
    SelectSeq(table, LAMBDA row : row.assessment_id = assessment_id)

\* .order('score', desc=True): the orders the datastore may answer in (rows
\* of equal score come in any order)
OrderedByScoreDesc(rows) ==
    LET n == Len(rows)
        perms == {p \in [1..n -> 1..n] : \A a, b \in 1..n : a # b => p[a] # p[b]}
    IN  {[k \in 1..n |-> rows[p[k]]] :
            p \in {q \in perms : \A k \in 1..(n - 1) : rows[q[k]].score >= rows[q[k + 1]].score}}

\* A comparison that keeps the lower score.
IsLower(score, best) == score < best

\* score > student_best_scores[student_id]["Best Score"]
IsHigher(score, best) == score > best

\* The loop body without the `student_id not in` test: a row per submission.
UpdateBestAlwaysInsert(best_scores, sub) ==
    Append(best_scores,
           [student_id |-> sub.student_id, name |-> sub.students.full_name,
            email |-> sub.students.email, best |-> sub.score])

\* The loop body: student_best_scores is a dict, modelled as its entries in
\* insertion order, each with its key student_id.
UpdateBest(best_scores, sub) ==
    LET at == {k \in 1..Len(best_scores) : best_scores[k].student_id = sub.student_id}
    IN  IF at = {}
        THEN Append(best_scores,
                    [student_id |-> sub.student_id, name |-> sub.students.full_name,
                     email |-> sub.students.email, best |-> sub.score])
        ELSE LET k == CHOOSE k \in at : TRUE
             IN  IF IsHigher(sub.score, best_scores[k].best)
                 THEN [best_scores EXCEPT ![k].best = sub.score]
                 ELSE best_scores

RECURSIVE BestScores(_, _)
\* for s in submissions: ...
BestScores(best_scores, subs) ==
    IF Len(subs) = 0 THEN best_scores
    ELSE BestScores(UpdateBest(best_scores, Head(subs)), Tail(subs))

\* list(student_best_scores.values())
ResultsList(best_scores) ==
    [k \in 1..Len(best_scores) |->
        [StudentName |-> best_scores[k].name, Email |-> best_scores[k].email,
         BestScore |-> best_scores[k].best]]

\* The page starts from a submissions table of two assessments, or from a
\* response for assessment 1 already received, in any order (the page does
\* not depend on the order the API answers in).
InitScoring ==
    /\ assessments = <<>> /\ questions = <<>>
    /\ req = [r \in {1} |-> IdleFrame]
    /\ submissions = <<>> /\ auth = AuthOff /\ ui = ExamOff
    /\ db0 = <<assessments, questions, submissions>>
    /\ dd = DifficultyOff
    /\ nq = NormalizerOff
    /\ gq = GeneratorOff
    /\ \/ \E table \in SeqsUpTo(SubmissionRows({1, 2}), MaxSubmissions) :
             agg = [ScoringOff EXCEPT !.pc = "start", !.table = table]
       \/ \E subs \in SeqsUpTo(SubmissionRows({1}), MaxSubmissions) :
             agg = [ScoringOff EXCEPT !.pc = "fetched", !.table = subs,
                                      !.assessment_id = 1, !.submissions = subs]

\* "Load Scores": GET /admin/assessments/{id}/results
LoadScores(assessment_id, dbok) ==
    /\ agg.pc = "start"
    /\ IF dbok
       THEN \E subs \in OrderedByScoreDesc(RowsOfAssessment(agg.table, assessment_id)) :
               agg' = [agg EXCEPT !.pc = "fetched", !.assessment_id = assessment_id,
                                  !.submissions = subs]
       ELSE agg' = [agg EXCEPT !.pc = "error", !.assessment_id = assessment_id]
    /\ UNCHANGED <<assessments, questions, req, db0, dd, nq, gq, submissions, auth, ui>>

\* The page processes the response: nothing to show for an empty list, else
\* the best score of each student.
ProcessScores ==
    /\ agg.pc = "fetched"
    /\ LET best_scores == IF Len(agg.submissions) = 0 THEN <<>>
                          ELSE BestScores(<<>>, agg.submissions)
       IN  agg' = [agg EXCEPT !.pc = "shown", !.student_best_scores = best_scores,
                              !.results_list = ResultsList(best_scores)]
    /\ UNCHANGED <<assessments, questions, req, db0, dd, nq, gq, submissions, auth, ui>>

NextScoring ==
    \/ \E a \in {1, 2}, dbok \in BOOLEAN : LoadScores(a, dbok)
    \/ ProcessScores

SpecScoring == InitScoring /\ [][NextScoring]_vars

\* ------------------------------------------------------------------------
\* generate_questions on its own
\* ------------------------------------------------------------------------
\* What may stand before and after the body of a response.
Prefixes ==
    { <<>>,
      <<Tok("fence")>>,
      <<Tok("fence"), Tok("tag")>>,
      <<Tok("fence"), Tok("tag"), Tok("ws")>>,
      <<Tok("ws"), Tok("fence"), Tok("tag"), Tok("ws")>>,
      <<Tok("word"), Tok("ws")>> }
Suffixes ==
    { <<>>,
      <<Tok("fence")>>,
      <<Tok("ws"), Tok("fence")>>,
      <<Tok("ws"), Tok("fence"), Tok("ws")>>,
      <<Tok("ws"), Tok("tag"), Tok("ws"), Tok("fence")>> }

ObjectLiterals == {ServiceItem(1, 0), ServiceItem(2, 1), JsonWordItem, PartialItem}

\* Bodies: arrays of up to MaxGen object literals, a single object, a
\* number, an array of a number, prose, an array cut short, nothing.
Bodies ==
    {ArrayText(items) : items \in SeqsUpTo(ObjectLiterals, MaxGen)} \cup
    {<<ObjTok(o)>> : o \in ObjectLiterals} \cup
    { <<Tok("num")>>,
      <<Tok("lbr"), Tok("num"), Tok("rbr")>>,
      <<Tok("word")>>,
      <<Tok("lbr"), ObjTok(ServiceItem(1, 0))>>,
      <<>> }

GeneratorInputs ==
    {CallFailure} \cup {Answer(p \o b \o x) : p \in Prefixes, b \in Bodies, x \in Suffixes}

InitGenerator ==
    /\ assessments = <<>> /\ questions = <<>>
    /\ req = [r \in {1} |-> IdleFrame]
    /\ submissions = <<>> /\ auth = AuthOff /\ ui = ExamOff
    /\ db0 = <<assessments, questions, submissions>>
    /\ dd = DifficultyOff
    /\ nq = NormalizerOff
    /\ agg = ScoringOff
    /\ \E outcome \in GeneratorInputs :
          gq = [pc |-> "new", outcome |-> outcome, result |-> generate_questions(CallFailure)]

\* One call of generate_questions.
GenerateQuestionsCall ==
    /\ gq.pc = "new"
    /\ gq' = [gq EXCEPT !.pc = "done", !.result = generate_questions(gq.outcome)]
    /\ UNCHANGED <<assessments, questions, req, db0, dd, nq, agg, submissions, auth, ui>>

NextGenerator == GenerateQuestionsCall

SpecGenerator == InitGenerator /\ [][NextGenerator]_vars

\* ------------------------------------------------------------------------
\* get_current_user and verify_jwt on their own
\* ------------------------------------------------------------------------
\* The rows of the profiles table (admins); the students table holds Students.
Profiles == {"P1", "P2"}

\* Bearer tokens: text that decodes as a JWT or not; signed with the server's
\* secret by login / student_login ("server") or with any other key
\* ("forged"); past its exp claim or not; its sub claim (absent: "") and its
\* role claim.
Tokens ==
    [decodable : BOOLEAN, issuer : {"server", "forged"}, expired : BOOLEAN,
     sub : Students \cup Profiles \cup {"X9", ""}, role : {"student", "admin"}]

\* What login and student_login hand out: sub is the id of a row, the role
\* claim is that row's role.
IssuedByServer(token) ==
    /\ token.decodable /\ token.issuer = "server"
    /\ token.sub \in Students \cup Profiles
    /\ token.role = IF token.sub \in Students THEN "student" ELSE "admin"

\* Tokens a client can present: the ones the server issued (fresh or
\* expired), and anything a client makes up itself.
PresentableTokens == {t \in Tokens : t.issuer = "server" => IssuedByServer(t)}

\* jwt.decode(jwt_token, options={"verify_signature": False}): the payload of
\* any decodable token; None on an exception.  verify_exp says whether the
\* installed PyJWT still checks exp when the signature check is off (1.x does,
\* 2.x does not).
verify_jwt(token, verify_exp) ==
    IF token.decodable /\ ~(verify_exp /\ token.expired)
    THEN [ok |-> TRUE, sub |-> token.sub]
    ELSE [ok |-> FALSE, sub |-> ""]

InitAuth ==
    /\ assessments = <<>> /\ questions = <<>> /\ submissions = <<>>
    /\ req = [r \in {1} |-> IdleFrame]
    /\ db0 = <<assessments, questions, submissions>>
    /\ dd = DifficultyOff /\ nq = NormalizerOff /\ agg = ScoringOff /\ gq = GeneratorOff
    /\ ui = ExamOff
    /\ \E t \in PresentableTokens : auth = [AuthOff EXCEPT !.pc = "new", !.token = t]

\* get_current_user: the payload, its sub, then the profiles and the students
\* table.
GetCurrentUser(verify_exp) ==
    LET payload == verify_jwt(auth.token, verify_exp)
        user_id == payload.sub
    IN  /\ auth.pc = "new"
        /\ auth' =
             IF ~payload.ok
             THEN [auth EXCEPT !.pc = "done", !.status = 401, !.detail = "Invalid token structure"]
             ELSE IF user_id = ""
             THEN [auth EXCEPT !.pc = "done", !.status = 401, !.detail = "Invalid user payload"]
             ELSE IF user_id \in Profiles
             THEN [auth EXCEPT !.pc = "done", !.status = 200,
                               !.user = [id |-> user_id, role |-> "admin"]]
             ELSE IF user_id \in Students
             THEN [auth EXCEPT !.pc = "done", !.status = 200,
                               !.user = [id |-> user_id, role |-> "student"]]
             ELSE [auth EXCEPT !.pc = "done", !.status = 401,
                               !.detail = "User not found in profiles or students table"]
        /\ UNCHANGED <<assessments, questions, req, db0, dd, nq, agg, gq, submissions, ui>>

NextAuth == \E verify_exp \in BOOLEAN : GetCurrentUser(verify_exp)

SpecAuth == InitAuth /\ [][NextAuth]_vars

\* ------------------------------------------------------------------------
\* The exam session of the frontend (start_exam, render_exam_page, exit_exam)
\* ------------------------------------------------------------------------
\* Most scores one session posts.
MaxPosts == 2

\* A question as the backend serves it to the exam page.
ExamQuestion(text, options, answer) ==
    [question_text |-> text, options |-> options, correct_answer |-> answer]

\* The assessments on the dashboard: 1 is of type AI, 2 of type Manual.
ExamTypes == <<"AI", "Manual">>

\* What GET .../generate (AI: a fresh assembly on every call, possibly an
\* empty one, possibly with a question the service gave no options for) and
\* GET .../questions (Manual: the stored rows) answer with status 200.
ExamResponses(exam_id, exam_type) ==
    IF exam_id = 1 /\ exam_type = "AI"
    THEN { <<ExamQuestion("a1", ServiceOptions, "A"), ExamQuestion("a2", ServiceOptions, "B")>>,
           <<ExamQuestion("b1", ServiceOptions, "B"), ExamQuestion("b2", ServiceOptions, "A")>>,
           <<ExamQuestion("c1", ServiceOptions, "A"), ExamQuestion("c2", <<>>, "B")>>,
           <<>> }
    ELSE IF exam_id = 2 /\ exam_type = "Manual"
    THEN { <<ExamQuestion("m1", ServiceOptions, "A"), ExamQuestion("m2", ServiceOptions, "C")>> }
    ELSE {}

\* The response to the page's GET: a failure, or 200 with a list.
FetchResults(exam_id, exam_type) ==
    {[ok |-> FALSE, questions |-> <<>>]} \cup
    {[ok |-> TRUE, questions |-> qs] : qs \in ExamResponses(exam_id, exam_type)}

\* What the student may have selected for a question: nothing (-1) or the
\* index of an option.
SelectionValues == {-1, 0, 1}

\* A render_exam_page that asks the backend on every run.
render_exam_page_uncached(u, fetch) ==
    IF u.exam_id = 0 \/ u.exam_type = ""
    THEN [u EXCEPT !.screen = "no_exam", !.shown = <<>>]
    ELSE IF ~fetch.ok
    THEN [u EXCEPT !.screen = "load_failed", !.shown = <<>>]
    ELSE LET v == [u EXCEPT !.has_questions = TRUE, !.exam_questions = fetch.questions,
                            !.fetches = IF u.fetches < 2 THEN u.fetches + 1 ELSE 2]
         IN  IF Len(v.exam_questions) = 0
             THEN [v EXCEPT !.screen = "no_questions", !.shown = <<>>]
             ELSE [v EXCEPT !.screen = "exam", !.shown = v.exam_questions]

\* render_exam_page up to the form: the session's exam, the cached questions
\* or the fetch, the form.
render_exam_page(u, fetch) ==
    IF u.exam_id = 0 \/ u.exam_type = ""
    THEN [u EXCEPT !.screen = "no_exam", !.shown = <<>>]
    ELSE IF ~u.has_questions /\ ~fetch.ok
    THEN [u EXCEPT !.screen = "load_failed", !.shown = <<>>]
    ELSE LET v == IF u.has_questions THEN u
                  ELSE [u EXCEPT !.has_questions = TRUE, !.exam_questions = fetch.questions,
                                 !.fetches = IF u.fetches < 2 THEN u.fetches + 1 ELSE 2]
         IN  IF Len(v.exam_questions) = 0
             THEN [v EXCEPT !.screen = "no_questions", !.shown = <<>>]
             ELSE [v EXCEPT !.screen = "exam", !.shown = v.exam_questions]

\* One run of the script: the login page without a token, the exam page when
\* the query parameter exam is active, else the dashboard.
RunScript(u) ==
    IF ~u.token THEN {[u EXCEPT !.screen = "login", !.shown = <<>>]}
    ELSE IF ~u.exam_param THEN {[u EXCEPT !.screen = "dashboard", !.shown = <<>>]}
    ELSE {render_exam_page(u, fetch) : fetch \in FetchResults(u.exam_id, u.exam_type)}

\* The screens of the exam page, and those that show the form.
ExamScreens ==
    {"no_exam", "load_failed", "no_questions", "exam", "unanswered", "submitted", "save_failed"}
FormScreens == {"exam", "unanswered", "submitted", "save_failed"}

\* The questions that get a radio and an entry in user_answers.
Answerable(qs) == {k \in 1..Len(qs) : Len(qs[k].options) > 0}

\* score = (correct_count / total) * 100 if total > 0 else 0
ExamScore(qs, selections) ==
    LET total == Cardinality(Answerable(qs))
        correct_count == Cardinality({k \in Answerable(qs) :
                             Chr65(selections[k]) = qs[k].correct_answer})
    IN  IF total > 0 THEN (correct_count * 100) \div total ELSE 0

InitExam ==
    /\ assessments = <<>> /\ questions = <<>> /\ submissions = <<>>
    /\ req = [r \in {1} |-> IdleFrame]
    /\ db0 = <<assessments, questions, submissions>>
    /\ dd = DifficultyOff /\ nq = NormalizerOff /\ agg = ScoringOff /\ gq = GeneratorOff
    /\ auth = AuthOff
    /\ ui = [ExamOff EXCEPT !.pc = "on"]

\* The student logs in; the script runs again.
ExamLogin ==
    /\ ui.pc = "on" /\ ~ui.token
    /\ ui' \in RunScript([ui EXCEPT !.token = TRUE])
    /\ UNCHANGED <<assessments, questions, req, db0, dd, nq, agg, gq, submissions, auth>>

\* logout: st.session_state.clear(); the query parameters stay.
ExamLogout ==
    /\ ui.pc = "on" /\ ui.token
    /\ ui' \in RunScript([ExamOff EXCEPT !.pc = "on", !.exam_param = ui.exam_param])
    /\ UNCHANGED <<assessments, questions, req, db0, dd, nq, agg, gq, submissions, auth>>

\* The Start button of an assessment on the dashboard: start_exam.
StartExam(assessment_id) ==
    /\ ui.pc = "on" /\ ui.screen = "dashboard"
    /\ ui' \in RunScript([ui EXCEPT !.exam_id = assessment_id,
                                     !.exam_type = ExamTypes[assessment_id],
                                     !.exam_param = TRUE, !.fetches = 0])
    /\ UNCHANGED <<assessments, questions, req, db0, dd, nq, agg, gq, submissions, auth>>

\* The "Return to Dashboard" button at the top of the exam page (or, with no
\* exam in the session, the one under the warning): exit_exam.
ExitExam ==
    /\ ui.pc = "on" /\ ui.screen \in ExamScreens
    /\ ui' \in RunScript([ui EXCEPT !.exam_id = 0, !.exam_type = "", !.has_questions = FALSE,
                                     !.exam_questions = <<>>, !.exam_param = FALSE])
    /\ UNCHANGED <<assessments, questions, req, db0, dd, nq, agg, gq, submissions, auth>>

\* The "Return to Dashboard" button under the load error: the click reruns
\* the script, which fetches again; only when that fetch fails too is the
\* button reached and exit_exam called.
ReturnAfterLoadFailure ==
    /\ ui.pc = "on" /\ ui.screen = "load_failed"
    /\ \E fetch \in FetchResults(ui.exam_id, ui.exam_type) :
          IF fetch.ok
          THEN ui' = render_exam_page(ui, fetch)
          ELSE ui' \in RunScript([ui EXCEPT !.exam_id = 0, !.exam_type = "",
                                            !.has_questions = FALSE, !.exam_questions = <<>>,
                                            !.exam_param = FALSE])
    /\ UNCHANGED <<assessments, questions, req, db0, dd, nq, agg, gq, submissions, auth>>

\* A rerun of the script with no button pressed.
PageRerun ==
    /\ ui.pc = "on"
    /\ ui' \in RunScript(ui)
    /\ UNCHANGED <<assessments, questions, req, db0, dd, nq, agg, gq, submissions, auth>>

\* "Submit Assessment": the script runs again with the form's selections;
\* with a selection missing it stops at the warning, else it posts the score
\* and submit_submission stores it (or fails).
SubmitForm(selections, saveok) ==
    /\ ui.pc = "on" /\ ui.screen \in FormScreens
    /\ Len(submissions) < MaxPosts
    /\ \E u \in RunScript(ui) :
          LET user_answers == Answerable(u.shown)
              unanswered_indices == {k \in user_answers : selections[k] = -1}
              score == ExamScore(u.shown, selections)
              run == [u EXCEPT !.answered_form = ui.shown, !.selections = selections,
                               !.scored = u.shown]
          IN  /\ u.screen = "exam"
              /\ IF unanswered_indices # {}
                 THEN /\ ui' = [run EXCEPT !.screen = "unanswered", !.posted = FALSE, !.score = 0]
                      /\ UNCHANGED submissions
                 ELSE /\ ui' = [run EXCEPT !.screen = IF saveok THEN "submitted" ELSE "save_failed",
                                           !.posted = TRUE, !.score = score]
                      /\ submissions' =
                            IF saveok
                            THEN Append(submissions, [student_id |-> "S1",
                                                      assessment_id |-> u.exam_id, score |-> score])
                            ELSE submissions
    /\ UNCHANGED <<assessments, questions, req, db0, dd, nq, agg, gq, auth>>

NextExam ==
    \/ ExamLogin
    \/ ExamLogout
    \/ \E a \in 1..Len(ExamTypes) : StartExam(a)
    \/ ExitExam
    \/ ReturnAfterLoadFailure
    \/ PageRerun
    \/ \E selections \in [1..Len(ui.shown) -> SelectionValues], saveok \in BOOLEAN :
          SubmitForm(selections, saveok)

SpecExam == InitExam /\ [][NextExam]_vars

\* ------------------------------------------------------------------------
\* Properties
\* ------------------------------------------------------------------------
Min(a, b) == IF a < b THEN a ELSE b

\* create_assessment ended because generate_questions raised.
GenerationFailed(f) ==
    /\ f.op = "create_assessment" /\ f.pc = "done"
    /\ f.status = 500 /\ f.detail = "Unexpected error during generation."

\* The rows of the questions table that belong to an assessment.
RowsOf(assessment_id) ==
    {k \in 1..Len(questions) : questions[k].assessment_id = assessment_id}

\* C1: when generate_questions fails on any topic of a create_assessment
\* request, no question of any topic of that request is in the questions
\* table: the table is as it was and holds no row of the request's assessment.
C1_NoQuestionsOnGenerationFailure ==
    \A r \in DOMAIN req :
        GenerationFailed(req[r]) =>
            /\ questions = db0[2]
            /\ RowsOf(req[r].assessment_id) = {}

\* A two-topic request whose second topic failed after the first topic had
\* produced questions.
C1_Witness ==
    \E r \in DOMAIN req :
        /\ GenerationFailed(req[r])
        /\ Len(req[r].topics) = 2 /\ req[r].calls = 2
        /\ Len(req[r].all_generated_questions) > 0
        /\ questions = db0[2]

\* C2: when create_assessment fails because generation failed, no datastore
\* write of the request was attempted and the datastore is as it was before
\* the request (no assessment record, no question row).
C2_NothingPersistedOnGenerationFailure ==
    \A r \in DOMAIN req :
        GenerationFailed(req[r]) =>
            /\ req[r].writes = 0
            /\ <<assessments, questions>> = db0

\* C3: validation of a difficulty split succeeds if and only if each of the
\* three integers is within [0,100] and their sum is exactly 100.
C3_DifficultyValidIffInRangeAndSum100 ==
    dd.pc = "done" => (dd.ok <=> WellFormedDifficulty(dd.in))

\* C4: a creation request with a malformed topic (difficulty sum other than
\* 100, empty topic name, non-positive count) is rejected with a validation
\* error before any generation call and any datastore write.
C4_MalformedRequestRejectedFirst ==
    \A r \in DOMAIN req :
        LET f == req[r]
        IN  (f.op = "create_assessment"
             /\ \E k \in 1..Len(f.topics) : ~WellFormedTopic(f.topics[k]))
            => /\ f.status = 422
               /\ f.calls = 0 /\ f.writes = 0
               /\ <<assessments, questions>> = db0

\* Two questions are the same generated item (the fields the generator set
\* and no later stage rewrites).
SameItem(a, b) ==
    /\ a.question_text = b.question_text
    /\ a.options = b.options
    /\ a.difficulty = b.difficulty

\* The requested count of the topic the last completed iteration handled.
LastCount(f) == Get(f.topics[f.i - 1], "count")

\* C5: in both assembly paths, when the generator returned n items for a
\* topic of requested count c, the output for the topic is the first
\* min(c, n) returned items in generator-return order, nothing more.
C5_TopicOutputIsFirstMinItems ==
    \A r \in DOMAIN req :
        LET f == req[r]
        IN  f.i >= 2 =>
              /\ Len(f.generated) = Min(LastCount(f), Len(f.returned))
              /\ \A k \in 1..Len(f.generated) : SameItem(f.generated[k], f.returned[k])

\* The on-the-fly path truncated a response that was longer than the count.
C5_Witness ==
    \E r \in DOMAIN req :
        LET f == req[r]
        IN  /\ f.op = "generate_assessment_questions" /\ f.i >= 2
            /\ LastCount(f) = 2 /\ Len(f.returned) = 3
            /\ Len(f.generated) = 2
            /\ f.generated[2].question_text = f.returned[2].question_text

\* A question whose correct_answer is still the text of one of its options.
AnswerIsOptionText(q) ==
    /\ IsStr(q.correct_answer)
    /\ q.correct_answer \notin CanonicalLabels
    /\ q.correct_answer \in Range(q.options)

\* C6: every question the assembler outputs, persisted by create_assessment
\* or returned by generate_assessment_questions, went through the normalizer:
\* none still carries the text of one of its options as correct_answer.
C6_AssembledQuestionsAreNormalized ==
    \A r \in DOMAIN req :
        LET f == req[r]
        IN  /\ (f.op = "generate_assessment_questions" /\ f.status = 200) =>
                 \A k \in 1..Len(f.all_generated_questions) :
                     ~AnswerIsOptionText(f.all_generated_questions[k])
            /\ (f.op = "create_assessment" /\ f.status = 201) =>
                 \A k \in RowsOf(f.assessment_id) : ~AnswerIsOptionText(questions[k])

\* The GeneratedQuestion shape of the data model: exactly four option
\* strings and a string correct_answer.
GeneratedQuestionShape(q) ==
    /\ Len(q.options) = 4
    /\ \A k \in 1..Len(q.options) : IsStr(q.options[k])
    /\ IsStr(q.correct_answer)

\* Positions that have a canonical label.
LabelledPositions(q) == {i \in 0..3 : i < Len(q.options)}

\* C7 as stated: for a generated question, a correct_answer that is not a
\* canonical label and equals options[i] is replaced by the label of
\* position i.
C7_TextReplacedByLabelOfAnyMatch ==
    (nq.pc # "new" /\ GeneratedQuestionShape(nq.in)) =>
        \A i \in LabelledPositions(nq.in) :
            (nq.in.correct_answer \notin CanonicalLabels
             /\ nq.in.options[i + 1] = nq.in.correct_answer)
            => nq.out.correct_answer = Chr65(i)

\* C7 amended: a correct_answer that is a string, is not a canonical label
\* and equals options[i] but no earlier option is replaced by the label of
\* position i; when position 2 is that first match the result is "C".
C7_TextReplacedByLabelOfFirstMatch ==
    nq.pc # "new" =>
        \A i \in LabelledPositions(nq.in) :
            (/\ IsStr(nq.in.correct_answer)
             /\ nq.in.correct_answer \notin CanonicalLabels
             /\ nq.in.options[i + 1] = nq.in.correct_answer
             /\ \A j \in 1..i : nq.in.options[j] # nq.in.correct_answer)
            => nq.out.correct_answer = Chr65(i)

\* The answer text is at position 2 and again at position 3, at no earlier one.
C7_Witness ==
    /\ nq.pc = "normalized"
    /\ Len(nq.in.options) = 4
    /\ nq.in.correct_answer = "x"
    /\ nq.in.options[3] = "x" /\ nq.in.options[4] = "x"
    /\ nq.in.options[1] # "x" /\ nq.in.options[2] # "x"
    /\ nq.out.correct_answer = "C"

\* C8: a question whose correct_answer is already a canonical label is left
\* exactly as it was, whatever its option texts are.
C8_LabelIsNoOp ==
    (nq.pc # "new" /\ nq.in.correct_answer \in CanonicalLabels) => nq.out = nq.in

\* The label "B" is also the text of the first option.
C8_Witness ==
    /\ nq.pc = "normalized"
    /\ nq.in.correct_answer = "B"
    /\ Len(nq.in.options) = 4 /\ nq.in.options[1] = "B"
    /\ nq.out = nq.in

\* A generated question whose correct_answer is neither a canonical label
\* nor the text of one of its options.
Unmatched(q) ==
    q.correct_answer \notin CanonicalLabels /\ q.correct_answer \notin Range(q.options)

C10_ScoredCorrectIffSelectedAnyForm ==
    (nq.pc = "scored" /\ GeneratedQuestionShape(nq.in)) =>
        \A i \in 0..(Len(nq.in.options) - 1) :
            (\/ (i <= 3 /\ nq.in.correct_answer = Chr65(i))
             \/ nq.in.correct_answer = nq.in.options[i + 1])
            => (nq.correct <=> nq.selected_idx = i)

\* C10 amended: when the generated correct_answer is the label of position i,
\* or is a string that is no canonical label and is the text of options[i]
\* and of no earlier option, the scoring test is true exactly when the
\* student selected position i.
C10_ScoredCorrectIffSelectedUnambiguous ==
    nq.pc = "scored" =>
        \A i \in 0..(Len(nq.in.options) - 1) :
            (\/ (i <= 3 /\ nq.in.correct_answer = Chr65(i))
             \/ /\ IsStr(nq.in.correct_answer)
                /\ nq.in.correct_answer \notin CanonicalLabels
                /\ nq.in.correct_answer = nq.in.options[i + 1]
                /\ \A j \in 1..i : nq.in.options[j] # nq.in.correct_answer)
            => (nq.correct <=> nq.selected_idx = i)

\* The generator emitted the text of the fourth option and the student
\* selected the fourth option.
C10_Witness ==
    /\ nq.pc = "scored"
    /\ Len(nq.in.options) = 4
    /\ nq.in.correct_answer = "y" /\ nq.in.options[4] = "y"
    /\ \A j \in 1..3 : nq.in.options[j] # "y"
    /\ nq.selected_idx = 3 /\ nq.correct

\* The first n items of a list (all of it when it is shorter).
FirstN(s, n) == [j \in 1..Min(n, Len(s)) |-> s[j]]

\* What the k-th generation call of a request contributes: the first
\* `count` items of what it returned.
TopicSegment(f, k) == FirstN(f.call_log[k].value, Get(f.topics[k], "count"))

RECURSIVE SegmentsUpTo(_, _)
\* The segments of topics 1..k one after the other, in topic order.
SegmentsUpTo(f, k) ==
    IF k = 0 THEN <<>> ELSE SegmentsUpTo(f, k - 1) \o TopicSegment(f, k)

\* C11: the assembled list is the concatenation of the per-topic lists in
\* the order the topics were given, each in generator-return order.
C11_AssemblyIsConcatenationInTopicOrder ==
    \A r \in DOMAIN req :
        LET f == req[r]
            expected == SegmentsUpTo(f, f.i - 1)
        IN  f.i >= 1 =>
              /\ Len(f.all_generated_questions) = Len(expected)
              /\ \A j \in 1..Len(expected) :
                     SameItem(f.all_generated_questions[j], expected[j])

\* Two topics, the first gave one question and the second two others; the
\* saved list has them in that order.
C11_Witness ==
    \E r \in DOMAIN req :
        LET f == req[r]
        IN  /\ f.op = "create_assessment" /\ f.status = 201
            /\ Len(f.topics) = 2 /\ Len(f.all_generated_questions) = 3
            /\ f.topics[1].count = 1 /\ f.topics[2].count = 2
            /\ f.all_generated_questions[1].question_text = "a1"
            /\ f.all_generated_questions[2].question_text = "b1"
            /\ f.all_generated_questions[3].question_text = "b2"

\* C12: the assembled list is never longer than the sum of the requested
\* counts of the batch, whatever the service returns.
C12_AssemblyNoLongerThanRequested ==
    \A r \in DOMAIN req :
        Len(req[r].all_generated_questions) <= SumCounts(req[r].topics)

\* Every call of a finished on-the-fly request returned more than requested.
C12_Witness ==
    \E r \in DOMAIN req :
        LET f == req[r]
        IN  /\ f.op = "generate_assessment_questions" /\ f.status = 200
            /\ Len(f.topics) = 2
            /\ \A k \in 1..Len(f.call_log) :
                   Len(f.call_log[k].value) > f.topics[k].count
            /\ Len(f.all_generated_questions) = SumCounts(f.topics)

RECURSIVE Offset(_, _)
\* The number of assembled questions that topics 1..k contributed.
Offset(f, k) == IF k = 0 THEN 0 ELSE Offset(f, k - 1) + Len(TopicSegment(f, k))

\* The topic whose generation call produced the j-th assembled question.
TopicIndexAt(f, j) ==
    CHOOSE k \in 1..(f.i - 1) : Offset(f, k - 1) < j /\ j <= Offset(f, k)

\* C13: in both assembly paths every assembled question carries a topic
\* field whose value is the topic name of the TopicRequest that produced it.
C13_QuestionsCarryTopicField ==
    \A r \in DOMAIN req :
        LET f == req[r]
        IN  f.i >= 1 =>
              \A j \in 1..Len(f.all_generated_questions) :
                  f.all_generated_questions[j].topic =
                      Get(f.topics[TopicIndexAt(f, j)], "topic_name")

\* C20: within one batch the generation calls are issued in topic order, at
\* most one per topic, and no call follows a call that failed.
C20_CallsSequentialOncePerTopic ==
    \A r \in DOMAIN req :
        LET f == req[r]
        IN  /\ f.calls = Len(f.call_log)
            /\ Len(f.call_log) <= Len(f.topics)
            /\ \A k \in 1..Len(f.call_log) :
                   /\ f.call_log[k].topic = k
                   /\ f.call_log[k].raised => k = Len(f.call_log)

\* The first call of a two-topic on-the-fly request succeeded, the second
\* failed and ended the request.
C20_Witness ==
    \E r \in DOMAIN req :
        LET f == req[r]
        IN  /\ f.op = "generate_assessment_questions" /\ f.pc = "done"
            /\ Len(f.topics) = 2 /\ Len(f.call_log) = 2
            /\ ~f.call_log[1].raised /\ f.call_log[2].raised
            /\ f.status = 500

\* The students that have a submission for the assessment on view, and the
\* scores of one of them.
StudentsWithSubmission ==
    {agg.table[k].student_id : k \in {k \in 1..Len(agg.table) :
                                        agg.table[k].assessment_id = agg.assessment_id}}
ScoresOf(student_id) ==
    {agg.table[k].score : k \in {k \in 1..Len(agg.table) :
                                   /\ agg.table[k].assessment_id = agg.assessment_id
                                   /\ agg.table[k].student_id = student_id}}
MaxOf(S) == CHOOSE x \in S : \A y \in S : y <= x

\* C14: whatever the order of the submissions, the best score shown for a
\* student is the maximum score among that student's submissions of the
\* assessment.
C14_BestScoreIsMaximum ==
    agg.pc = "shown" =>
        \A st \in StudentsWithSubmission :
            \E k \in 1..Len(agg.student_best_scores) :
                /\ agg.student_best_scores[k].student_id = st
                /\ agg.student_best_scores[k].best = MaxOf(ScoresOf(st))
                /\ agg.results_list[k].BestScore = MaxOf(ScoresOf(st))

\* Submissions (S1,40), (S1,85), (S2,60) in that order give S1: 85, S2: 60.
C14_Witness ==
    /\ agg.pc = "shown"
    /\ Len(agg.submissions) = 3
    /\ agg.submissions[1].student_id = "S1" /\ agg.submissions[1].score = 40
    /\ agg.submissions[2].student_id = "S1" /\ agg.submissions[2].score = 85
    /\ agg.submissions[3].student_id = "S2" /\ agg.submissions[3].score = 60
    /\ agg.results_list = << [StudentName |-> "Ann", Email |-> "ann@example.org", BestScore |-> 85],
                             [StudentName |-> "Bob", Email |-> "bob@example.org", BestScore |-> 60] >>

\* C15: the output has exactly one row for each student with at least one
\* submission for the assessment and no row for any other student.
C15_OneRowPerStudentWithSubmission ==
    agg.pc = "shown" =>
        /\ Len(agg.results_list) = Cardinality(StudentsWithSubmission)
        /\ Len(agg.student_best_scores) = Len(agg.results_list)
        /\ {agg.student_best_scores[k].student_id : k \in 1..Len(agg.student_best_scores)}
               = StudentsWithSubmission
        /\ \A k \in 1..Len(agg.results_list) :
               agg.results_list[k].StudentName = agg.student_best_scores[k].name

\* The table holds two submissions of S1 for the assessment on view and one
\* of S2 for another assessment: one row, for S1.
C15_Witness ==
    /\ agg.pc = "shown" /\ agg.assessment_id = 1
    /\ Len(agg.table) = 3 /\ Len(agg.submissions) = 2
    /\ \E k \in 1..3 : agg.table[k].student_id = "S2" /\ agg.table[k].assessment_id = 2
    /\ StudentsWithSubmission = {"S1"}
    /\ Len(agg.results_list) = 1 /\ agg.results_list[1].StudentName = "Ann"

\* A response wrapped in a code fence, and the text the fence encloses (the
\* language tag after the opening fence belongs to the fence).
IsFenced(text) ==
    LET c == StrStrip(text, "ws")
    IN  Len(c) >= 2 /\ c[1].t = "fence" /\ c[Len(c)].t = "fence"
Enclosed(text) ==
    LET c == StrStrip(text, "ws")
        inner == SubSeq(c, 2, Len(c) - 1)
    IN  IF Len(inner) > 0 /\ inner[1].t = "tag" THEN Tail(inner) ELSE inner

\* The response of a call is valid JSON, once any surrounding fence is off.
ValidJson(outcome) ==
    /\ outcome.ok
    /\ ~JsonLoads(IF IsFenced(outcome.text) THEN Enclosed(outcome.text) ELSE outcome.text).raised

\* C16: whenever the external call fails or the response text is not valid
\* JSON, generate_questions raises, and the endpoint that called it ends in
\* an error response with no question returned or persisted.
C16_InvalidResponseRaisesAndEndsInError ==
    \A r \in DOMAIN req :
        LET f == req[r]
        IN  \A k \in 1..Len(f.call_log) :
                ~ValidJson(f.call_log[k].outcome) =>
                    /\ f.call_log[k].raised
                    /\ f.pc = "done" /\ f.status = 500
                    /\ questions = db0[2]

\* C17: when the response text cannot be parsed, the error raised to the
\* caller carries the raw response text.
C17_ErrorCarriesRawResponse ==
    (gq.pc = "done" /\ gq.outcome.ok /\ gq.result.raised) =>
        gq.outcome.text \in Range(gq.result.error.attachments)

\* The shape of a generated question: a text, four option strings, a correct
\* answer and a difficulty.
WellShaped(q) ==
    /\ IsStr(q.question_text)
    /\ Len(q.options) = 4 /\ \A k \in 1..Len(q.options) : IsStr(q.options[k])
    /\ q.correct_answer # NoField
    /\ q.difficulty # NoField

\* C18: a value generate_questions returns is a sequence of objects that all
\* have the shape of a generated question.
C18_ReturnedValueIsListOfQuestions ==
    (gq.pc = "done" /\ ~gq.result.raised) =>
        /\ gq.result.kind = "array"
        /\ \A k \in 1..Len(gq.result.value) : WellShaped(gq.result.value[k])

\* C19: for a fenced response whose enclosed text is a valid JSON array,
\* generate_questions returns exactly the array the enclosed text denotes.
C19_FencedArrayReturnedUnaltered ==
    (/\ gq.pc = "done" /\ gq.outcome.ok
     /\ IsFenced(gq.outcome.text)
     /\ JsonLoads(Enclosed(gq.outcome.text)).kind = "array") =>
        /\ ~gq.result.raised
        /\ gq.result.kind = "array"
        /\ gq.result.value = JsonLoads(Enclosed(gq.outcome.text)).value

\* C21: create_assessment answers 201 only when generate_questions returned
\* for every topic of the request and the assembled questions were inserted.
C21_SuccessOnlyAfterAllTopicsAndSave ==
    \A r \in DOMAIN req :
        LET f == req[r]
        IN  (f.op = "create_assessment" /\ f.status = 201) =>
                /\ Len(f.call_log) = Len(f.topics)
                /\ \A k \in 1..Len(f.call_log) :
                       ~f.call_log[k].raised /\ ~LoopRaises(f.call_log[k])
                /\ questions = db0[2] \o QuestionRows(f.assessment_id, f.all_generated_questions)
                /\ f.total_questions = Len(f.all_generated_questions)

\* A two-topic request answered 201 with its three questions in the table.
C21_Witness ==
    \E r \in DOMAIN req :
        /\ req[r].op = "create_assessment" /\ req[r].status = 201
        /\ Len(req[r].topics) = 2 /\ Len(req[r].call_log) = 2
        /\ Len(req[r].all_generated_questions) = 3
        /\ Cardinality(RowsOf(req[r].assessment_id)) = 3

\* C22: generate_assessment_questions writes nothing: whether it succeeds or
\* fails, the assessments, questions and submissions tables are as they were;
\* what it returns is assembled from the answers to its own calls, one per
\* stored topic, never from stored question rows.
C22_OnTheFlyPathLeavesDatastoreUnchanged ==
    \A r \in DOMAIN req :
        LET f == req[r]
        IN  f.op = "generate_assessment_questions" =>
                /\ assessments = db0[1] /\ questions = db0[2] /\ submissions = db0[3]
                /\ f.writes = 0
                /\ f.status = 200 => Len(f.call_log) = Len(f.topics)
                /\ \A j \in 1..Len(f.all_generated_questions) :
                       \E k \in 1..Len(f.call_log) : \E n \in 1..Len(f.call_log[k].value) :
                           SameItem(f.all_generated_questions[j], f.call_log[k].value[n])

\* The on-the-fly path answered 200 for the stored assessment with questions
\* other than the stored ones, and the three tables are untouched.
C22_Witness ==
    \E r \in DOMAIN req :
        /\ req[r].op = "generate_assessment_questions" /\ req[r].status = 200
        /\ Len(req[r].all_generated_questions) = 3
        /\ Len(questions) = 2
        /\ \A j \in 1..3 : \A k \in 1..Len(questions) :
               req[r].all_generated_questions[j].question_text # questions[k].question_text
        /\ assessments = db0[1] /\ questions = db0[2] /\ submissions = db0[3]

\* The question rows stored for an assessment, in table order.
StoredFor(assessment_id) ==
    SelectSeq(questions, LAMBDA row : row.assessment_id = assessment_id)

\* What a request's own calls and topics give: each answer cut to the topic's
\* count and tagged with the topic's name, in topic order.
RECURSIVE OwnAssembly(_, _)
OwnAssembly(f, k) ==
    IF k = 0 THEN <<>>
    ELSE OwnAssembly(f, k - 1) \o TagTopic(TopicSegment(f, k), f.topics[k].topic_name)

\* C23: however two concurrent create_assessment requests interleave, each
\* one's record holds its own topics, the rows stored under its record are
\* exactly the questions its own calls produced for its own topics, and its
\* response counts exactly those.
C23_ConcurrentRequestsAreIndependent ==
    \A r \in DOMAIN req :
        LET f == req[r]
        IN  /\ f.assessment_id # 0 =>
                /\ assessments[f.assessment_id].topic = f.topics
                /\ \A o \in DOMAIN req \ {r} : req[o].assessment_id # f.assessment_id
                /\ f.all_generated_questions = OwnAssembly(f, f.i - 1)
                /\ StoredFor(f.assessment_id) =
                       IF f.status = 201
                       THEN QuestionRows(f.assessment_id, OwnAssembly(f, Len(f.topics)))
                       ELSE <<>>
            /\ f.status = 201 => f.total_questions = Len(OwnAssembly(f, Len(f.topics)))

\* Both requests were received before either saved; both ended with 201, the
\* first with one question of one kind, the second with three of another.
C23_Witness ==
    /\ req[1].status = 201 /\ req[2].status = 201
    /\ req[1].assessment_id = 1 /\ req[2].assessment_id = 2
    /\ Len(StoredFor(1)) = 1 /\ Len(StoredFor(2)) = 3
    /\ StoredFor(1)[1].question_text = "a1"
    /\ StoredFor(2)[1].question_text = "b1"
    /\ questions[1].assessment_id = 2

\* C24: after a create_assessment answered 201, total_questions on the
\* assessment record equals the number of question rows stored for the
\* assessment and the total_questions of the response.
C24_StoredTotalEqualsRowsSaved ==
    \A r \in DOMAIN req :
        LET f == req[r]
        IN  (f.op = "create_assessment" /\ f.status = 201) =>
                /\ assessments[f.assessment_id].total_questions = Cardinality(RowsOf(f.assessment_id))
                /\ assessments[f.assessment_id].total_questions = f.total_questions

\* C25: after normalization a question's correct_answer is one of A, B, C, D
\* or the value the generator returned, whatever the options list.
C25_NormalizedAnswerIsLabelOrUnchanged ==
    nq.pc # "new" /\ nq.pc # "off" =>
        \/ nq.out.correct_answer \in CanonicalLabels
        \/ nq.out.correct_answer = nq.in.correct_answer

\* C26: get_current_user lets a request through only when its token was
\* issued by the server and has not expired; every other token gets 401.
C26_OnlyVerifiedTokensAuthenticate ==
    auth.pc = "done" =>
        /\ auth.status \in {200, 401}
        /\ auth.status = 200 => (IssuedByServer(auth.token) /\ ~auth.token.expired)

StudentEndpoints ==
    {"get_assessment_questions", "generate_assessment_questions", "submit_submission"}

\* C27: the student endpoints answer 403 to a user whose role is not student,
\* without a generation call and without a datastore write; a saved
\* submission is recorded under the id of the authenticated student.
C27_StudentEndpointsAreStudentsOnly ==
    \A r \in DOMAIN req :
        LET f == req[r]
        IN  /\ (f.op \in StudentEndpoints /\ f.role # "student") =>
                /\ f.pc = "done" /\ f.status = 403
                /\ f.calls = 0 /\ f.writes = 0
                /\ assessments = db0[1] /\ questions = db0[2] /\ submissions = db0[3]
            /\ f.op = "submit_submission" =>
                /\ Len(submissions) \in {Len(db0[3]), Len(db0[3]) + 1}
                /\ Len(submissions) = Len(db0[3]) + 1 =>
                       /\ f.role = "student" /\ f.status = 200
                       /\ submissions[Len(submissions)] =
                              [student_id |-> f.user_id, assessment_id |-> f.assessment_id,
                               score |-> f.score]

\* Student S2 saved a score: the new row carries S2's id.
C27_Witness ==
    \E r \in DOMAIN req :
        /\ req[r].op = "submit_submission" /\ req[r].status = 200
        /\ req[r].user_id = "S2"
        /\ Len(submissions) = Len(db0[3]) + 1
        /\ submissions[Len(submissions)].student_id = "S2"

\* C28: when create_manual_assessment does not end with 201, the assessment
\* record it created is not in the datastore; a Manual assessment is never
\* stored without its questions.
C28_ManualAssessmentIsAllOrNothing ==
    \A r \in DOMAIN req :
        LET f == req[r]
        IN  (f.op = "create_manual_assessment" /\ f.pc = "done") =>
                /\ f.status # 201 => (assessments = db0[1] /\ questions = db0[2])
                /\ \A k \in 1..Len(assessments) :
                       assessments[k].type = "Manual" =>
                           Cardinality(RowsOf(assessments[k].id)) = assessments[k].total_questions

\* C29: the cached exam_questions were fetched for the exam_id of the
\* session, they are fetched at most once between a start_exam and the next
\* exit_exam, and the questions a submission is scored against are the ones
\* the form showed to the student.
C29_CachedQuestionsBelongToActiveExam ==
    /\ ui.has_questions =>
           /\ ui.exam_id # 0
           /\ ui.exam_questions \in ExamResponses(ui.exam_id, ui.exam_type)
    /\ ui.fetches <= 1
    /\ ui.screen \in FormScreens =>
           /\ ui.shown = ui.exam_questions
           /\ ui.screen # "exam" => ui.scored = ui.answered_form

\* After an AI exam was left and the Manual exam started, the student was
\* shown and scored on the Manual exam's questions.
C29_Witness ==
    /\ ui.screen = "submitted" /\ ui.exam_id = 2
    /\ ui.scored = ui.answered_form /\ Len(ui.scored) = 2
    /\ ui.scored[1].question_text = "m1"
    /\ ui.fetches = 1
    /\ Len(submissions) = 2 /\ submissions[1].assessment_id = 1 /\ submissions[2].assessment_id = 2

\* C30: a run of the exam page posts a score only when every question of the
\* exam has a selected option; a submit with an unselected question leaves
\* the submissions as they were.
C30_ScorePostedOnlyWhenAllAnswered ==
    (ui.pc = "on" /\ ui.posted) =>
        \A k \in 1..Len(ui.scored) : ui.selections[k] # -1

====
